---- MODULE Spec2Model ----
(***************************************************************************)
(* Model of the MangaWorld downloader.                                     *)
(*                                                                         *)
(* Transfer phase (Spec, FairSpec): the batch link resolver's hand-off     *)
(* (extract_download_links), the concurrency coordinator (run_in_parallel  *)
(* / manage_running_tasks), the thread pool it drives, and the per-chapter *)
(* page downloader (download_chapter / attempt_download_page /             *)
(* download_page).                                                         *)
(*                                                                         *)
(* Crawl phase (CrawlSpec, FairCrawlSpec): chapter discovery               *)
(* (get_chapter_urls_and_pages / fetch_chapter_data) and batch link        *)
(* resolution (extract_download_links / fetch_download_link), each a set   *)
(* of retrying tasks gathered on one event loop.                           *)
(***************************************************************************)
EXTENDS Integers, Sequences, FiniteSets, TLC

\* ------------------------------------------------------------------ bounds
MaxChapters == 2
MaxPages == 2
MaxCookie == 4
MaxTotal == 3
MaxVolumes == 2
MaxDivs == 2
MaxImgs == 3
MaxUrls == 3

\* ------------------------------------------------------- program constants
MAX_WORKERS == 4
MAX_RETRIES == 30
PAGE_EXTENSIONS == <<".jpg", ".png", ".gif", ".webp">>
MANGA_LIKE == {"Manga", "Oneshot", "Doujinshi", "Manhua"}
\* the extensions FIRST_PAGE_SUFFIX_REGEX, r"1\.(png|gif|jpg)$", names
FIRST_PAGE_SUFFIX_EXTENSIONS == {".png", ".gif", ".jpg"}

\* Page counts are kept as text, as fetch_chapter_data returns them; the last
\* entry stands for a text int() rejects.
PageTexts == <<"1", "2", "3", "4", "5">>
BadText == "n/a"

VARIABLES
    site,               \* what the upstream server and the disk will do
    disk0,              \* files found in the destination before the run
    disk,               \* files in the destination
    chapter_urls,       \* discovered chapters, oldest first
    pages_per_chapter,  \* discovered page-count texts, index-aligned
    start_index, end_index, resolved,  \* the batch resolver's inputs
    download_links,     \* the batch resolver's result (items of the pool)
    cpc,                \* coordinator position
    indx,               \* items submitted so far
    futures,            \* run_in_parallel's dict, in insertion order
    pollQueue,          \* rest of manage_running_tasks' snapshot
    flipTask,           \* task popped and about to be made visible
    fstate,             \* per item: state of its Future
    overall,            \* the overall progress entry
    taskAdded, visible, completed,     \* per-item progress entries
    wpc,                \* per item: worker position inside download_chapter
    num_pages, page, ext,              \* download_chapter's locals
    reqs,               \* requests issued for the page being attempted
    attempted,          \* pages handed to attempt_download_page, in order
    failLog,            \* pages logged as undownloadable
    written,            \* per item: the paths its worker has written to
    startOrder,         \* items in the order their tasks began executing
    visOrder,           \* items in the order their entries were made visible
    anchors,            \* the publication page's chapter anchors, DOM order
    dpc,                \* position of the crawl phase
    manga_type,         \* publication type handed to the batch resolver
    tasks,              \* what each gathered task works on, creation order
    profile,            \* per task: what the upstream will answer
    tstate,             \* per task: position inside its retry loop
    attempt,            \* per task: attempts made so far
    sleeps,             \* per task: delays taken so far
    gets,               \* per task: GET requests sent so far
    result,             \* per task: what it returned
    doneOrder,          \* tasks in the order they ended
    package,            \* the copy of the page fetcher that runs: "src" is
                        \* src/src/general_utils.py, "helpers" is
                        \* src/helpers/general_utils.py
    doc,                \* the document served for the entry url
    requests,           \* the GET requests fetch_page has issued, in order
    outcome,            \* how far fetch_page is, and how it ended
    start_chapter, end_chapter, num_chapters,  \* validate_chapter_range's
                        \* arguments
    window,             \* what validate_chapter_range came to
    soup,               \* the document handed to extract_volume_info
    volumes,            \* what extract_volume_info came to
    img_items,          \* the content images of the document one resolution
                        \* attempt looks at, in document order
    found_link,         \* what that attempt came to
    url_file,           \* the lines of URLs.txt
    batch_urls,         \* the list main read from it
    bpc,                \* where main is
    processed           \* the publications started and how each ended

vars == <<site, disk0, disk, chapter_urls, pages_per_chapter, start_index,
          end_index, resolved, download_links, cpc, indx, futures, pollQueue,
          flipTask, fstate, overall, taskAdded, visible, completed, wpc,
          num_pages, page, ext, reqs, attempted, failLog, written,
          startOrder, visOrder, package, doc, requests, outcome, start_chapter,
          end_chapter, num_chapters, window, soup, volumes, img_items,
          found_link, url_file, batch_urls, bpc, processed, anchors, dpc,
          manga_type, tasks, profile, tstate, attempt, sleeps, gets, result,
          doneOrder>>

pageVars == <<package, doc, requests, outcome>>
rangeVars == <<start_chapter, end_chapter, num_chapters, window>>
volumeVars == <<soup, volumes>>
attemptVars == <<img_items, found_link>>
batchVars == <<url_file, batch_urls, bpc, processed>>
toolVars == <<pageVars, rangeVars, volumeVars, attemptVars, batchVars>>
runVars == <<site, disk0, disk, chapter_urls, pages_per_chapter, start_index,
             end_index, resolved, download_links, cpc, indx, futures,
             pollQueue, flipTask, fstate, overall, taskAdded, visible,
             completed, wpc, num_pages, page, ext, reqs, attempted, failLog,
             written, startOrder, visOrder, anchors, dpc, manga_type, tasks,
             profile, tstate, attempt, sleeps, gets, result, doneOrder>>
coordVars == <<cpc, indx, futures, pollQueue, flipTask>>
taskVars == <<tasks, profile, tstate, attempt, sleeps, gets, result,
              doneOrder>>
crawlVars == <<anchors, dpc, manga_type, taskVars>>
inputVars == <<site, disk0, chapter_urls, pages_per_chapter, start_index,
               end_index, resolved, download_links, crawlVars, toolVars>>
workerVars == <<wpc, num_pages, page, ext, reqs, attempted, failLog,
                written>>

Items == 1..MaxChapters
Slots == 1..MaxChapters
NumExt == Len(PAGE_EXTENSIONS)

\* ------------------------------------------------------------- environment
\* The upstream behaviours a run is checked against: "any" leaves every
\* response and every write outcome open; the others fix them.
Sites == {"any", "all", "webp", "missing", "oserror", "stream"}

\* response.status_code == HTTP_STATUS_OK is possible for extension e
MayOk(s, e) ==
    CASE s = "webp" -> PAGE_EXTENSIONS[e] = ".webp"
      [] s = "missing" -> FALSE
      [] OTHER -> TRUE

\* a non-200 status or a RequestException is possible for extension e
MayFail(s, e) ==
    CASE s = "any" -> TRUE
      [] s = "webp" -> PAGE_EXTENSIONS[e] # ".webp"
      [] s = "missing" -> TRUE
      [] OTHER -> FALSE

\* outcomes of download_page's open-and-stream: the body is written whole,
\* iter_content raises a RequestException, or open() raises OSError
WriteResults(s) ==
    CASE s = "any" -> {"written", "stream", "oserror"}
      [] s = "oserror" -> {"oserror"}
      [] s = "stream" -> {"stream"}
      [] OTHER -> {"written"}

\* ------------------------------------------------------------------ helpers
RECURSIVE SelectLinks(_, _, _)
\* the links of chapters lo..hi that are not None, in order
SelectLinks(lo, hi, ok) ==
    IF lo > hi THEN <<>>
    ELSE (IF lo \in ok THEN <<lo>> ELSE <<>>) \o SelectLinks(lo + 1, hi, ok)

Min(a, b) == IF a < b THEN a ELSE b

\* download_links[start_index:end_index] without the None entries; a link is
\* identified with the chapter it was resolved for
ExtractDownloadLinks(urls, s, e, ok) ==
    SelectLinks(s + 1, Min(e, Len(urls)), ok)

IsIntText(t) == \E k \in 1..Len(PageTexts) : PageTexts[k] = t
IntOf(t) == CHOOSE k \in 1..Len(PageTexts) : PageTexts[k] = t

Remove(seq, x) == SelectSeq(seq, LAMBDA y : y # x)

Running == {j \in DOMAIN fstate : fstate[j] = "RUNNING"}

\* ----------------------------------------------------------- initial state
CountTexts == {PageTexts[k] : k \in 1..MaxPages} \cup {BadText}

\* files a previous, interrupted run left behind: pages 1..k of every chapter
\* directory, all under extension x
Leftovers(n, k, x) ==
    {[dir |-> d, page |-> p, ext |-> x, body |-> "old", whole |-> TRUE] :
        d \in 1..n, p \in 1..k}

\* the state before run_in_parallel's first step, for the work items S
InitOver(S) ==
    /\ disk = disk0
    /\ indx = 0
    /\ futures = <<>> /\ pollQueue = <<>> /\ flipTask = 0
    /\ fstate = [j \in S |-> "none"]
    /\ overall = [added |-> FALSE, total |-> 0, completed |-> 0]
    /\ taskAdded = [j \in S |-> FALSE]
    /\ visible = [j \in S |-> FALSE]
    /\ completed = [j \in S |-> 0]
    /\ wpc = [j \in S |-> "idle"]
    /\ num_pages = [j \in S |-> 0]
    /\ page = [j \in S |-> 0]
    /\ ext = [j \in S |-> 0]
    /\ reqs = [j \in S |-> <<>>]
    /\ attempted = [j \in S |-> <<>>]
    /\ failLog = [j \in S |-> {}]
    /\ written = [j \in S |-> {}]
    /\ startOrder = <<>> /\ visOrder = <<>>

\* the state before main's first step
InitCommon ==
    /\ start_index = 0 /\ end_index = 0 /\ resolved = {}
    /\ download_links = <<>>
    /\ cpc = "extract"
    /\ InitOver(Items)

\* one chapter, an arbitrary upstream, an arbitrary set of leftover files
InitSingle ==
    /\ site = "any"
    /\ chapter_urls = <<1>>
    /\ pages_per_chapter \in [1..1 -> CountTexts]
    /\ \E k \in 0..MaxPages, e \in 1..NumExt :
          /\ (k = 0 => e = 1)
          /\ disk0 = Leftovers(1, k, PAGE_EXTENSIONS[e])

\* MaxChapters chapters, a fixed upstream, a fresh destination
InitBatch ==
    /\ site \in Sites \ {"any"}
    /\ chapter_urls = [c \in 1..MaxChapters |-> c]
    /\ pages_per_chapter \in [1..MaxChapters -> CountTexts]
    /\ disk0 = {}

\* fetch_page is not called
PageIdle ==
    /\ package = "src"
    /\ doc = [kind |-> "nobody"] /\ requests = <<>> /\ outcome = "idle"

\* validate_chapter_range is not called
RangeIdle ==
    /\ start_chapter = [given |-> FALSE] /\ end_chapter = [given |-> FALSE]
    /\ num_chapters = 0
    /\ window = [state |-> "idle"]

\* extract_volume_info is not called
VolumeIdle == soup = <<>> /\ volumes = [state |-> "idle"]

\* no resolution attempt is looked at on its own
AttemptIdle == img_items = <<>> /\ found_link = [state |-> "idle"]

\* the batch runner is not started
BatchIdle ==
    /\ url_file = <<>> /\ batch_urls = <<>>
    /\ bpc = "idle" /\ processed = <<>>

ToolsIdle ==
    PageIdle /\ RangeIdle /\ VolumeIdle /\ AttemptIdle /\ BatchIdle

\* no gathered task exists
NoTasks ==
    /\ tasks = <<>>
    /\ profile = [k \in Slots |-> "none"]
    /\ tstate = [k \in Slots |-> "none"]
    /\ attempt = [k \in Slots |-> 0]
    /\ sleeps = [k \in Slots |-> 0]
    /\ gets = [k \in Slots |-> 0]
    /\ result = [k \in Slots |-> <<>>]
    /\ doneOrder = <<>>

\* the crawl is over and has handed its lists to the transfer phase
CrawlOver ==
    /\ anchors = <<>>
    /\ dpc = "download"
    /\ manga_type = "Manga"
    /\ NoTasks

Init == (InitSingle \/ InitBatch) /\ InitCommon /\ CrawlOver /\ ToolsIdle

\* ------------------------------------------------------ the batch resolver
\* extract_download_links: every chapter is resolved (to a link or to None),
\* the window is applied to the results and the None entries are dropped.
ExtractLinks ==
    /\ cpc = "extract"
    /\ \E s \in 0..(Len(chapter_urls) - 1), e \in 1..Len(chapter_urls),
          ok \in SUBSET (1..Len(chapter_urls)) :
          /\ s < e
          /\ start_index' = s /\ end_index' = e /\ resolved' = ok
          /\ download_links' = ExtractDownloadLinks(chapter_urls, s, e, ok)
    /\ cpc' = "start"
    /\ UNCHANGED <<site, disk0, disk, chapter_urls, pages_per_chapter, indx,
                   futures, pollQueue, flipTask, fstate, overall, taskAdded,
                   visible, completed, workerVars, startOrder, visOrder,
                   crawlVars, toolVars>>

\* ---------------------------------------------------------- the coordinator
\* run_in_parallel up to the loop: the overall entry is added, visible
StartRun ==
    /\ cpc = "start"
    /\ overall' = [added |-> TRUE, total |-> Len(download_links),
                   completed |-> 0]
    /\ cpc' = "submit"
    /\ UNCHANGED <<inputVars, disk, indx, futures, pollQueue, flipTask,
                   fstate, taskAdded, visible, completed, workerVars,
                   startOrder, visOrder>>

\* variant: a single pass over the snapshot (`if futures:`)
KeepPollingOnce(futs) == FALSE
\* `while futures:` of manage_running_tasks, after a pass over the snapshot
KeepPolling(futs) == futs # <<>>

\* variant: `if not future.done():`, true of a queued future as well
IsRunningOrQueued(st) == st \in {"PENDING", "RUNNING"}
\* `if future.running():` of manage_running_tasks
IsRunning(st) == st = "RUNNING"

\* where manage_running_tasks goes after looking at one future: on through
\* the snapshot, round again with a new snapshot, or back to the caller
AfterLook(rest, futs) ==
    IF rest # <<>> THEN [cpc |-> "poll", queue |-> rest]
    ELSE IF KeepPolling(futs) THEN [cpc |-> "poll", queue |-> futs]
    ELSE [cpc |-> "submit", queue |-> <<>>]

\* one turn of run_in_parallel's loop: add the hidden entry, submit the task,
\* record the future, enter manage_running_tasks
Submit ==
    /\ cpc = "submit"
    /\ indx < Len(download_links)
    /\ LET j == indx + 1
           futs == Append(futures, j)
       IN /\ taskAdded' = [taskAdded EXCEPT ![j] = TRUE]
          /\ fstate' = [fstate EXCEPT ![j] = "PENDING"]
          /\ futures' = futs
          /\ indx' = j
          /\ cpc' = "poll"
          /\ pollQueue' = futs
    /\ UNCHANGED <<inputVars, disk, flipTask, overall, visible, completed,
                   workerVars, startOrder, visOrder>>

\* manage_running_tasks looks at the next future of its snapshot
PollFuture ==
    /\ cpc = "poll"
    /\ pollQueue # <<>>
    /\ LET f == Head(pollQueue)
           rest == Tail(pollQueue)
       IN IF IsRunning(fstate[f])
          THEN /\ futures' = Remove(futures, f)
               /\ flipTask' = f
               /\ pollQueue' = rest
               /\ cpc' = "flip"
          ELSE /\ cpc' = AfterLook(rest, futures).cpc
               /\ pollQueue' = AfterLook(rest, futures).queue
               /\ UNCHANGED <<futures, flipTask>>
    /\ UNCHANGED <<inputVars, disk, indx, fstate, overall, taskAdded, visible,
                   completed, workerVars, startOrder, visOrder>>

\* job_progress.update(task, visible=True) for the future just popped
Flip ==
    /\ cpc = "flip"
    /\ visible' = [visible EXCEPT ![flipTask] = TRUE]
    /\ visOrder' = Append(visOrder, flipTask)
    /\ flipTask' = 0
    /\ cpc' = AfterLook(pollQueue, futures).cpc
    /\ pollQueue' = AfterLook(pollQueue, futures).queue
    /\ UNCHANGED <<inputVars, disk, indx, futures, fstate, overall, taskAdded,
                   completed, workerVars, startOrder>>

\* variant: shutdown(wait=False), which joins no thread
NotJoined(st) == TRUE
\* shutdown(wait=True) joins the pool's threads: it is past a work item
\* once the item's future is done
Joined(st) == st = "FINISHED"

\* leaving the `with ThreadPoolExecutor` block: shutdown(wait=True) returns
\* once every submitted task has ended
Shutdown ==
    /\ cpc = "submit"
    /\ indx = Len(download_links)
    /\ \A j \in 1..indx : Joined(fstate[j])
    /\ cpc' = "returned"
    /\ UNCHANGED <<inputVars, disk, indx, futures, pollQueue, flipTask,
                   fstate, overall, taskAdded, visible, completed, workerVars,
                   startOrder, visOrder>>

\* process_manga_download after run_in_parallel has returned, called with
\* generate_pdf set: process_pdf_generation begins
StartPdf ==
    /\ cpc = "returned"
    /\ cpc' = "pdf"
    /\ UNCHANGED <<inputVars, disk, indx, futures, pollQueue, flipTask,
                   fstate, overall, taskAdded, visible, completed, workerVars,
                   startOrder, visOrder>>

\* ------------------------------------------------------------ the pool
\* variant: the executor adds a thread for every queued work item
WorkerAlwaysFree(running) == TRUE
\* ThreadPoolExecutor(max_workers=MAX_WORKERS): a queued work item is taken
\* only by an idle thread, and the executor has at most MAX_WORKERS threads
WorkerIsFree(running) == running < MAX_WORKERS

\* A worker thread takes the oldest queued work item and marks its future
\* running (set_running_or_notify_cancel); at most MAX_WORKERS threads exist.
StartTask(j) ==
    /\ fstate[j] = "PENDING"
    /\ \A i \in 1..(j - 1) : fstate[i] # "PENDING"
    /\ WorkerIsFree(Cardinality(Running))
    /\ fstate' = [fstate EXCEPT ![j] = "RUNNING"]
    /\ wpc' = [wpc EXCEPT ![j] = "begin"]
    /\ startOrder' = Append(startOrder, j)
    /\ UNCHANGED <<inputVars, disk, coordVars, overall, taskAdded, visible,
                   completed, num_pages, page, ext, reqs, attempted, failLog,
                   written, visOrder>>

\* The work item's function has returned or raised: the future gets its
\* result or its exception and is no longer running.
TaskDone(j) ==
    /\ fstate[j] = "RUNNING"
    /\ wpc[j] \in {"returned", "raised"}
    /\ fstate' = [fstate EXCEPT ![j] = "FINISHED"]
    /\ UNCHANGED <<inputVars, disk, coordVars, overall, taskAdded, visible,
                   completed, workerVars, startOrder, visOrder>>

\* ------------------------------------------------------ the page downloader
\* variant: every item is given the first chapter's directory
SharedDir(indx_chapter) == 1
\* create_download_directory: "Chapter <indx_chapter + 1>"
ChapterDir(indx_chapter) == indx_chapter + 1

\* download_chapter up to its loop, for item_info = (j - 1, download_links[j]):
\* num_pages = int(pages_per_chapter[indx_chapter]) raises IndexError for a
\* missing entry and ValueError for a text that is no integer.
BeginChapter(j) ==
    /\ fstate[j] = "RUNNING"
    /\ wpc[j] = "begin"
    /\ LET indx_chapter == j - 1
       IN IF indx_chapter + 1 > Len(pages_per_chapter)
             \/ ~IsIntText(pages_per_chapter[indx_chapter + 1])
          THEN /\ wpc' = [wpc EXCEPT ![j] = "raised"]
               /\ UNCHANGED <<num_pages, page, ext>>
          ELSE LET n == IntOf(pages_per_chapter[indx_chapter + 1])
               IN /\ num_pages' = [num_pages EXCEPT ![j] = n]
                  /\ page' = [page EXCEPT ![j] = 1]
                  /\ ext' = [ext EXCEPT ![j] = 1]
                  /\ wpc' = [wpc EXCEPT ![j] = IF n >= 1 THEN "page"
                                                ELSE "final"]
    /\ UNCHANGED <<inputVars, disk, coordVars, fstate, overall, taskAdded,
                   visible, completed, reqs, attempted, failLog, written,
                   startOrder,
                   visOrder>>

\* variant: the `return True` after download_page is missing
AfterResponseNoReturn(e, ok) ==
    IF e < NumExt THEN "next" ELSE IF ok THEN "return_true" ELSE "return_false"
\* attempt_download_page's loop body after a response: a 200 is written and
\* ends the call with True; a failure moves to the next extension, and after
\* the last one the call ends with False
AfterResponse(e, ok) ==
    IF ok THEN "return_true"
    ELSE IF e < NumExt THEN "next" ELSE "return_false"

\* variant: `if not success:` leaves the loop
AfterPageBreak(p, n, success) ==
    IF success /\ p < n THEN [wpc |-> "page", page |-> p + 1]
    ELSE [wpc |-> "final", page |-> p]
\* download_chapter's loop after attempt_download_page(p) returned: the next
\* page, or the completion step after the last one
AfterPage(p, n, success) ==
    IF p < n THEN [wpc |-> "page", page |-> p + 1]
    ELSE [wpc |-> "final", page |-> p]

\* download_page: the file <page><extension> in the chapter's directory gets
\* the body of the response it was handed
DownloadPage(response, p, extension, dir, w) ==
    [dir |-> dir, page |-> p, ext |-> extension, body |-> response.ext,
     whole |-> (w = "written")]

\* the file the failures are appended to, in the working directory
SESSION_LOG == [dir |-> 0, page |-> 0, ext |-> "session.log"]

\* download_page's final_path: <download_path>/<page><extension>
FinalPath(f) == [dir |-> f.dir, page |-> f.page, ext |-> f.ext]

\* the paths one download_page call opens for writing: final_path, and the
\* session log when the stream breaks
PathsWritten(f, w) ==
    IF w = "oserror" THEN {}
    ELSE {FinalPath(f)} \cup (IF w = "stream" THEN {SESSION_LOG} ELSE {})

\* opening a path for writing replaces what was there
WriteFile(d, f) ==
    {g \in d : ~(g.dir = f.dir /\ g.page = f.page /\ g.ext = f.ext)} \cup {f}

\* One request of attempt_download_page(page[j]) and what follows from it;
\* the end of the call includes download_chapter's log entry and its
\* job_progress.update(task, completed=page / num_pages * 100), kept here as
\* whole percent (the float rounded down).
TryExtension(j) ==
    /\ fstate[j] = "RUNNING"
    /\ wpc[j] = "page"
    /\ LET p == page[j]
           e == ext[j]
           x == PAGE_EXTENSIONS[e]
       IN \E ok \in BOOLEAN :
          /\ IF ok THEN MayOk(site, e) ELSE MayFail(site, e)
          /\ \E w \in (IF ok THEN WriteResults(site) ELSE {"none"}) :
             LET response == [page |-> p, ext |-> x, ok |-> ok]
                 step == AfterResponse(e, ok)
                 success == step = "return_true"
                 after == AfterPage(p, num_pages[j], success)
             IN /\ reqs' = [reqs EXCEPT ![j] =
                              IF e = 1 THEN <<response>>
                              ELSE Append(@, response)]
                /\ attempted' = [attempted EXCEPT ![j] =
                                   IF e = 1 THEN Append(@, p) ELSE @]
                /\ disk' = IF ok /\ w # "oserror"
                           THEN WriteFile(disk, DownloadPage(response, p, x,
                                                  ChapterDir(j - 1), w))
                           ELSE disk
                /\ written' = [written EXCEPT ![j] =
                                 IF ok
                                 THEN @ \cup PathsWritten(
                                          DownloadPage(response, p, x,
                                              ChapterDir(j - 1), w), w)
                                 ELSE @]
                /\ IF ok /\ w = "oserror"
                   THEN /\ wpc' = [wpc EXCEPT ![j] = "raised"]
                        /\ UNCHANGED <<page, ext, failLog, completed>>
                   ELSE IF step = "next"
                   THEN /\ ext' = [ext EXCEPT ![j] = e + 1]
                        /\ UNCHANGED <<wpc, page, failLog, completed>>
                   ELSE /\ failLog' = [failLog EXCEPT ![j] =
                                         IF success THEN @ ELSE @ \cup {p}]
                        /\ completed' = [completed EXCEPT ![j] =
                                           (p * 100) \div num_pages[j]]
                        /\ wpc' = [wpc EXCEPT ![j] = after.wpc]
                        /\ page' = [page EXCEPT ![j] = after.page]
                        /\ ext' = [ext EXCEPT ![j] = 1]
    /\ UNCHANGED <<inputVars, coordVars, fstate, overall, taskAdded, visible,
                   num_pages, startOrder, visOrder>>

\* variant: the worker shows the entry at the end
FinalVisibleShown == TRUE
\* the visible argument of download_chapter's last update of its task
FinalVisible == FALSE

\* job_progress.update(task, completed=100, visible=False)
FinalUpdate(j) ==
    /\ fstate[j] = "RUNNING"
    /\ wpc[j] = "final"
    /\ completed' = [completed EXCEPT ![j] = 100]
    /\ visible' = [visible EXCEPT ![j] = FinalVisible]
    /\ wpc' = [wpc EXCEPT ![j] = "advance"]
    /\ UNCHANGED <<inputVars, disk, coordVars, fstate, overall, taskAdded,
                   num_pages, page, ext, reqs, attempted, failLog, written,
                   startOrder, visOrder>>

\* job_progress.advance(overall_task), then download_chapter returns
Advance(j) ==
    /\ fstate[j] = "RUNNING"
    /\ wpc[j] = "advance"
    /\ overall' = [overall EXCEPT !.completed = @ + 1]
    /\ wpc' = [wpc EXCEPT ![j] = "returned"]
    /\ UNCHANGED <<inputVars, disk, coordVars, fstate, taskAdded, visible,
                   completed, num_pages, page, ext, reqs, attempted, failLog,
                   written, startOrder, visOrder>>

\* ------------------------------------------------------------ specification
Worker(j) ==
    \/ StartTask(j)
    \/ BeginChapter(j)
    \/ TryExtension(j)
    \/ FinalUpdate(j)
    \/ Advance(j)
    \/ TaskDone(j)

Coordinator ==
    \/ ExtractLinks \/ StartRun \/ Submit \/ PollFuture \/ Flip \/ Shutdown
    \/ StartPdf

Next == Coordinator \/ \E j \in Items : Worker(j)

Spec == Init /\ [][Next]_vars

\* Threads are scheduled: the coordinator and every worker keep making steps
\* while they have one to make.
FairSpec ==
    /\ Spec
    /\ WF_vars(Coordinator)
    /\ \A j \in Items : WF_vars(Worker(j))

\* ============================================================== the crawler
\* Chapter discovery and batch link resolution: two gathers of retrying tasks
\* on one event loop. A task runs from one await to the next without
\* interleaving; the tasks of one gather interleave at their awaits.

xferVars == <<site, disk0, disk, cpc, indx, futures, pollQueue, flipTask,
              fstate, overall, taskAdded, visible, completed, workerVars,
              startOrder, visOrder, toolVars>>
listVars == <<chapter_urls, pages_per_chapter, start_index, end_index,
              resolved, download_links>>

Reverse(seq) == [i \in 1..Len(seq) |-> seq[Len(seq) + 1 - i]]

\* ----------------------------------------------------- upstream behaviours
\* What one attempt (the GET, the challenge redirect of check_real_page, the
\* lookup of the target element) can come to:
\*   found            the page holds the target element
\*   found_redirect   as found, on the page behind the challenge redirect
\*   absent           the page holds no target element
\*   absent_redirect  as absent, on the page behind the challenge redirect
\*   get_error        session.get raises ClientError or TimeoutError
\*   redirect_error   the redirect GET raises, or its raise_for_status does
\*   bad_cookie       the challenge cookie has no "=": cookie[1] is an
\*                    IndexError
\*   bad_target       the select has no option (AttributeError on None), the
\*                    img has no src (KeyError)
Answers == {"found", "found_redirect", "absent", "absent_redirect",
            "get_error", "redirect_error", "bad_cookie", "bad_target"}

\* What session.get(None) can come to: yarl rejects the url with a TypeError,
\* which aiohttp lets through or reports as InvalidURL, a ClientError.
UrlAnswers == {"url_type_error", "url_invalid"}

\* How the upstream treats one task: "any" leaves every attempt open, the
\* others fix it. A task whose url is None gets one of the UrlAnswers as its
\* profile, a task that requests nothing gets "unused".
Profiles == {"any", "up", "late", "down", "malformed"}

\* the answers a task of profile p can get on its attempt number a (from 0)
Outcomes(p, a) ==
    CASE p = "any" -> Answers
      [] p = "up" -> {"found"}
      [] p = "late" -> IF a = 0 THEN {"absent"} ELSE {"found"}
      [] p = "down" -> {"get_error", "absent"}
      [] p = "malformed" -> {"bad_target", "bad_cookie"}
      [] OTHER -> {p}

\* variant: the page behind the redirect is examined again, one hop further
GetsFollowingHops(kind) ==
    CASE kind \in {"found_redirect", "absent_redirect", "redirect_error"} -> 3
      [] kind \in UrlAnswers -> 0
      [] OTHER -> 1
\* GET requests sent in an attempt with this answer
Gets(kind) ==
    CASE kind \in {"found_redirect", "absent_redirect", "redirect_error"} -> 2
      [] kind \in UrlAnswers -> 0
      [] OTHER -> 1

\* the page-count text the upstream shows for chapter c
CountOf(c) == PageTexts[c]

\* ------------------------------------------------------- the retry loops
\* How the body of the retry loop leaves an attempt: by `return`, by falling
\* through to the delay (target absent, or the exception is one of the
\* except clause), or by an exception the except clause does not name.
AttemptEnds(kind) ==
    CASE kind \in {"found", "found_redirect"} -> "return"
      [] kind \in {"absent", "absent_redirect"} -> "retry"
      [] kind \in {"get_error", "redirect_error", "url_invalid"} -> "retry"
      [] OTHER -> "raise"

\* variant: one iteration more
LoopEndsLate(a) == a >= MAX_RETRIES + 1
\* `for attempt in range(MAX_RETRIES)` is exhausted after a iterations
LoopEnds(a) == a >= MAX_RETRIES

\* variant: the delay is taken after the last attempt as well
SleepAlways(a) == TRUE
\* `if attempt < MAX_RETRIES - 1:` guarding the delay after attempt a
SleepAfter(a) == a < MAX_RETRIES - 1

\* variant: the loop variable is not advanced
NextAttemptStuck(a) == a
\* the loop variable of the next iteration
NextAttempt(a) == a + 1

\* the counters of delays and requests are kept up to this value
CounterCap == 2 * (MAX_RETRIES + 1)
Bump(n, d) == Min(n + d, CounterCap)

\* generate_chapter_url; the empty url is None
GenerateChapterUrl(c, type) ==
    IF type \in MANGA_LIKE THEN <<c, "/1">>
    ELSE IF type = "Manhwa" THEN <<c, "/1?style=pages">>
    ELSE <<>>

\* the url a task requests
UrlToFetch(phase, c, type) ==
    IF phase = "probing" THEN <<c>> ELSE GenerateChapterUrl(c, type)

\* what a task returns when it gives up: (None, None) or None
Nothing(phase) == IF phase = "probing" THEN <<0, "">> ELSE <<>>

\* what a task returns on success: (chapter_url, num_pages), or the src of
\* the first page's image, base + "1" + extension
Found(phase, c, x) ==
    IF phase = "probing" THEN <<c, CountOf(c)>> ELSE <<c, "1", x>>

\* the gathered tasks are created, none has run yet
CreateTasks(targets, pr) ==
    /\ tasks' = targets
    /\ profile' = pr
    /\ tstate' = [k \in Slots |-> IF k <= Len(targets) THEN "new" ELSE "none"]
    /\ attempt' = [k \in Slots |-> 0]
    /\ sleeps' = [k \in Slots |-> 0]
    /\ gets' = [k \in Slots |-> 0]
    /\ result' = [k \in Slots |-> <<>>]
    /\ doneOrder' = <<>>

\* One task alone may meet any upstream; tasks that run together
\* are each given a fixed one. session.get treats None the same way in every
\* task of a run.
ProfileOk(pr, n, phase, type) ==
    \A k \in Slots :
        IF k > n THEN pr[k] = "none"
        ELSE IF phase = "resolving" /\ type = "None" THEN pr[k] = "unused"
        ELSE IF UrlToFetch(phase, 0, type) = <<>>
        THEN pr[k] \in UrlAnswers /\ pr[k] = pr[1]
        ELSE IF n = 1 THEN pr[k] = "any"
        ELSE pr[k] \in Profiles \ {"any"}

\* task k returns r
Return(k, r) ==
    /\ tstate' = [tstate EXCEPT ![k] = "done"]
    /\ result' = [result EXCEPT ![k] = r]
    /\ doneOrder' = Append(doneOrder, k)

\* One run of task k between two awaits: fetch_chapter_data or
\* fetch_download_link from its entry, or from the end of a delay, through
\* one attempt and up to the next delay or the end of the task.
FetchStep(k) ==
    /\ dpc \in {"probing", "resolving"}
    /\ k \in 1..Len(tasks)
    /\ tstate[k] \in {"new", "run", "sleep"}
    /\ LET c == tasks[k]
           a == attempt[k]
           url == UrlToFetch(dpc, c, manga_type)
       IN IF dpc = "resolving" /\ tstate[k] = "new" /\ manga_type = "None"
          THEN /\ Return(k, <<>>)
               /\ UNCHANGED <<attempt, sleeps, gets>>
          ELSE IF LoopEnds(a)
          THEN /\ Return(k, Nothing(dpc))
               /\ UNCHANGED <<attempt, sleeps, gets>>
          ELSE \E kind \in (IF url = <<>> THEN UrlAnswers ELSE Answers)
                            \cap Outcomes(profile[k], a),
                  x \in 1..NumExt :
                  /\ (AttemptEnds(kind) # "return" => x = 1)
                  /\ attempt' = [attempt EXCEPT ![k] = NextAttempt(a)]
                  /\ gets' = [gets EXCEPT ![k] = Bump(@, Gets(kind))]
                  /\ CASE AttemptEnds(kind) = "return" ->
                            /\ Return(k, Found(dpc, c, PAGE_EXTENSIONS[x]))
                            /\ UNCHANGED sleeps
                       [] AttemptEnds(kind) = "raise" ->
                            /\ tstate' = [tstate EXCEPT ![k] = "raised"]
                            /\ doneOrder' = Append(doneOrder, k)
                            /\ UNCHANGED <<sleeps, result>>
                       [] OTHER ->
                            IF SleepAfter(a)
                            THEN /\ sleeps' = [sleeps EXCEPT ![k] = Bump(@, 1)]
                                 /\ tstate' = [tstate EXCEPT ![k] = "sleep"]
                                 /\ UNCHANGED <<result, doneOrder>>
                            ELSE IF LoopEnds(NextAttempt(a))
                            THEN /\ Return(k, Nothing(dpc))
                                 /\ UNCHANGED sleeps
                            ELSE /\ tstate' = [tstate EXCEPT ![k] = "run"]
                                 /\ UNCHANGED <<sleeps, result, doneOrder>>
    /\ UNCHANGED <<xferVars, listVars, anchors, dpc, manga_type, tasks,
                   profile>>

\* variant: results in the order the tasks ended (asyncio.as_completed)
GatherAsCompleted(created, ended) == ended
\* `await asyncio.gather(*tasks)`: results in the order of its arguments
GatherOrder(created, ended) == created

\* the results handed back by the gather
Gathered ==
    LET order == GatherOrder([k \in 1..Len(tasks) |-> k], doneOrder)
    IN [i \in 1..Len(order) |-> result[order[i]]]

AllReturned == \A k \in 1..Len(tasks) : tstate[k] = "done"

\* an exception raised in a gathered task is raised by the gather; nothing
\* on the way up to asyncio.run handles it
GatherRaises ==
    /\ dpc \in {"probing", "resolving"}
    /\ \E k \in 1..Len(tasks) : tstate[k] = "raised"
    /\ dpc' = "aborted"
    /\ UNCHANGED <<xferVars, listVars, anchors, manga_type, taskVars>>

\* ------------------------------------------------------ chapter discovery
\* the anchors whose href contains "/read/", by position in the document
MatchingAnchors ==
    SelectSeq([d \in 1..Len(anchors) |-> d], LAMBDA d : anchors[d])

\* get_chapter_urls_and_pages up to its gather: one probe per matching anchor
ProbeChapters ==
    /\ dpc = "page"
    /\ \E pr \in [Slots -> Profiles \cup {"none"}] :
          /\ ProfileOk(pr, Len(MatchingAnchors), "probing", "None")
          /\ CreateTasks(MatchingAnchors, pr)
    /\ dpc' = "probing"
    /\ UNCHANGED <<xferVars, listVars, anchors, manga_type>>

\* variant: every result is kept
KeepAllResults(r) == TRUE
\* `if result[0]:`
KeepResult(r) == r[1] # 0

\* get_chapter_urls_and_pages from its gather on: the successful probes'
\* urls and counts, both lists reversed
GatherChapterData ==
    /\ dpc = "probing"
    /\ AllReturned
    /\ LET kept == SelectSeq(Gathered, KeepResult)
       IN /\ chapter_urls' = Reverse([i \in 1..Len(kept) |-> kept[i][1]])
          /\ pages_per_chapter' = Reverse([i \in 1..Len(kept) |-> kept[i][2]])
    /\ dpc' = "discovered"
    /\ UNCHANGED <<xferVars, start_index, end_index, resolved, download_links,
                   anchors, manga_type, taskVars>>

\* -------------------------------------------------- batch link resolution
\* the publication types the batch resolver is run with; "None" is None
TypeInputs == {"None", "Manga", "Manhwa", "Novel"}

\* the windows of a validated range that lies within the n chapters
Windows(n) ==
    IF n = 0 THEN {<<0, 0>>}
    ELSE {w \in (0..(n - 1)) \X (1..n) : w[1] < w[2]}

\* variant: only the chapters of the window are resolved
ResolveWindowed(urls, s, e) == SubSeq(urls, s + 1, Min(e, Len(urls)))
\* `for chapter_url in chapter_urls`: the chapters a resolution is made for
ResolveTargets(urls, s, e) == urls

\* extract_download_links up to its gather: one resolution per chapter
ResolveLinks ==
    /\ dpc = "discovered"
    /\ \E type \in TypeInputs, w \in Windows(Len(chapter_urls)),
          pr \in [Slots -> Profiles \cup UrlAnswers \cup {"none", "unused"}] :
          LET targets == ResolveTargets(chapter_urls, w[1], w[2])
          IN /\ ProfileOk(pr, Len(targets), "resolving", type)
             /\ CreateTasks(targets, pr)
             /\ manga_type' = type
             /\ start_index' = w[1] /\ end_index' = w[2]
    /\ dpc' = "resolving"
    /\ UNCHANGED <<xferVars, chapter_urls, pages_per_chapter, resolved,
                   download_links, anchors>>

\* re.sub(FIRST_PAGE_SUFFIX_REGEX, "", link): the link without a final "1"
\* followed by one of the regex's extensions
StripFirstPageSuffix(link) ==
    IF /\ Len(link) >= 2
       /\ link[Len(link) - 1] = "1"
       /\ link[Len(link)] \in FIRST_PAGE_SUFFIX_EXTENSIONS
    THEN SubSeq(link, 1, Len(link) - 2)
    ELSE link

\* `if download_link`
KeepLink(link) == link # <<>>

\* download_links[start_index:end_index]
Window(links, s, e) == SubSeq(links, s + 1, Min(e, Len(links)))

\* extract_download_links from its gather on: the window of the results,
\* the None entries dropped, the first-page suffix removed
GatherDownloadLinks ==
    /\ dpc = "resolving"
    /\ AllReturned
    /\ LET kept == SelectSeq(Window(Gathered, start_index, end_index),
                             KeepLink)
       IN /\ download_links' =
                 [i \in 1..Len(kept) |-> StripFirstPageSuffix(kept[i])]
          /\ resolved' = {p \in 1..Len(Gathered) : Gathered[p] # <<>>}
    /\ dpc' = "resolved"
    /\ UNCHANGED <<xferVars, chapter_urls, pages_per_chapter, start_index,
                   end_index, anchors, manga_type, taskVars>>

\* process_manga_download goes on to run_in_parallel with the links
StartDownload ==
    /\ dpc = "resolved"
    /\ dpc' = "download"
    /\ UNCHANGED <<xferVars, listVars, anchors, manga_type, taskVars>>

\* ------------------------------------------------- the crawl specification
\* the publication page has been fetched and parsed: up to MaxChapters
\* chapter anchors, each with or without "/read/" in its href
CrawlInit ==
    /\ anchors \in [1..MaxChapters -> BOOLEAN]
    /\ dpc = "page"
    /\ manga_type = "None"
    /\ NoTasks
    /\ site = "all" /\ disk0 = {}
    /\ chapter_urls = <<>> /\ pages_per_chapter = <<>>
    /\ InitCommon /\ ToolsIdle

CrawlMain ==
    \/ ProbeChapters
    \/ GatherChapterData
    \/ ResolveLinks
    \/ GatherDownloadLinks
    \/ GatherRaises
    \/ StartDownload

CrawlNext == CrawlMain \/ \E k \in Slots : FetchStep(k)

CrawlSpec == CrawlInit /\ [][CrawlNext]_vars

\* The event loop runs every task that is ready, and every delay ends.
FairCrawlSpec ==
    /\ CrawlSpec
    /\ WF_vars(CrawlMain)
    /\ \A k \in Slots : WF_vars(FetchStep(k))

\* ------------------------------------------------------------------ claims
Done == {"final", "advance", "returned"}
FilesOf(d, dir, p) == {f \in d : f.dir = dir /\ f.page = p}

\* C1: under every scheduling of the pool, manage_running_tasks' polling loop
\* eventually exits and run_in_parallel returns (checked under FairSpec).
C1_RunInParallelReturns == <>(cpc = "returned")

\* C2: the page count download_chapter iterates over for an item is the count
\* discovered for the chapter that item's link belongs to.
C2_PagesOfSameChapter ==
    \A j \in Items :
        wpc[j] \in {"page"} \cup Done =>
            /\ IsIntText(pages_per_chapter[download_links[j]])
            /\ num_pages[j] = IntOf(pages_per_chapter[download_links[j]])

\* C3: no request is issued for a page that already has a file in the
\* chapter's directory, and the files found there are left as they were.
C3_ExistingPageSkipped ==
    /\ \A j \in Items : \A k \in 1..Len(reqs[j]) :
          FilesOf(disk0, ChapterDir(j - 1), reqs[j][k].page) = {}
    /\ disk0 \subseteq disk

\* C4: the requests for a page follow PAGE_EXTENSIONS in order, only the last
\* of them can be a 200, nothing is requested after a 200, and the accepted
\* response's own body is what is written to <page><extension>.
C4_FirstAcceptedExtension ==
    \A j \in Items :
        LET r == reqs[j]
            n == Len(r)
        IN /\ n <= NumExt
           /\ \A k \in 1..n :
                /\ r[k].ext = PAGE_EXTENSIONS[k]
                /\ r[k].page = r[1].page
                /\ (k < n => ~r[k].ok)
           /\ (n > 0 /\ r[n].ok /\ wpc[j] # "raised") =>
                \E f \in FilesOf(disk, ChapterDir(j - 1), r[n].page) :
                    f.ext = r[n].ext /\ f.body = r[n].ext

C4_Witness ==
    \E j \in Items :
        /\ Len(reqs[j]) = NumExt
        /\ reqs[j][NumExt].ok
        /\ wpc[j] = "returned"
        /\ \E f \in FilesOf(disk, ChapterDir(j - 1), reqs[j][1].page) :
              f.ext = ".webp" /\ f.whole

\* C5: a page whose every extension failed is logged and the loop goes on:
\* pages are attempted once each in ascending order from 1, a logged page is
\* followed by the next page (or, for the last page, by the completion step),
\* and the completion step is reached only after all pages were attempted.
C5_FailedPageContinues ==
    \A j \in Items :
        /\ Len(attempted[j]) <= num_pages[j]
        /\ \A k \in 1..Len(attempted[j]) : attempted[j][k] = k
        /\ \A p \in failLog[j] :
              /\ p \in 1..Len(attempted[j])
              /\ IF p < num_pages[j] THEN page[j] > p ELSE wpc[j] \in Done
        /\ (Len(reqs[j]) = NumExt /\ ~reqs[j][NumExt].ok) =>
              reqs[j][1].page \in failLog[j]
        /\ wpc[j] \in Done => Len(attempted[j]) = num_pages[j]

C5_Witness ==
    \E j \in Items :
        /\ num_pages[j] >= 2
        /\ failLog[j] = 1..num_pages[j]
        /\ wpc[j] = "returned"

\* C6: download_chapter never raises.
C6_NeverRaises == \A j \in Items : wpc[j] # "raised"

\* C7: once all workers have finished, the overall counter equals the number
\* of chapters submitted.
C7_OverallCountsChapters ==
    (\A j \in 1..indx : fstate[j] = "FINISHED") => overall.completed = indx

\* C8: a chapter whose download has completed has its entry at 100 and hidden.
C8_FinishedStaysHidden ==
    \A j \in Items : wpc[j] = "returned" => completed[j] = 100 /\ ~visible[j]

\* C9: an entry the coordinator makes visible belongs to a task that has
\* started executing, never to one still queued.
C9_VisibleOnlyStarted ==
    \A j \in Items :
        (visible[j] \/ (cpc = "flip" /\ flipTask = j)
                    \/ \E k \in 1..Len(visOrder) : visOrder[k] = j)
            => fstate[j] \in {"RUNNING", "FINISHED"}

C9_Witness ==
    \E i, j \in Items :
        /\ visible[j] /\ fstate[j] = "RUNNING"
        /\ fstate[i] = "PENDING" /\ ~visible[i]

\* C10: entries are made visible in the order in which their tasks began
\* executing: the visibility order is a prefix of the start order.
C10_VisibleInStartOrder ==
    /\ Len(visOrder) <= Len(startOrder)
    /\ \A k \in 1..Len(visOrder) : visOrder[k] = startOrder[k]

C10_Witness == Len(visOrder) >= 2 /\ cpc = "returned"

\* ------------------------------------------------------- claims, the crawl
\* task k gave up: it returned (None, None), or None
GaveUp(k) == tstate[k] = "done" /\ result[k] \in {<<>>, <<0, "">>}
\* task k returned what it was looking for
Succeeded(k) == tstate[k] = "done" /\ ~GaveUp(k)
\* task k made every attempt of its retry loop, and all failed
Exhausted(k) == GaveUp(k) /\ attempt[k] = MAX_RETRIES
TaskSlots == 1..Len(tasks)

\* the matching anchors whose probe succeeded, in document order
SucceededAnchors ==
    SelectSeq(MatchingAnchors,
              LAMBDA d : \E k \in TaskSlots : tasks[k] = d /\ Succeeded(k))

\* C11: the chapter list that discovery returns is the matching anchors whose
\* probe succeeded, in the reverse of their document order, whatever the order
\* in which the probes ended.
C11_ReverseDocumentOrder ==
    dpc = "discovered" => chapter_urls = Reverse(SucceededAnchors)

\* two probes succeeded, and the one created last ended first
C11_Witness ==
    /\ dpc = "discovered"
    /\ Len(chapter_urls) >= 2
    /\ doneOrder[1] = Len(tasks)
    /\ Succeeded(doneOrder[1])

\* C12: discovery returns two lists of one length, the count at position i
\* being the one probed for the url at position i; a chapter whose probe
\* exhausted its attempts is in neither, and the length is the number of
\* matching anchors less the number of exhausted probes.
C12_ListsAligned ==
    dpc = "discovered" =>
        /\ Len(chapter_urls) = Len(pages_per_chapter)
        /\ \A i \in 1..Len(chapter_urls) :
              \E k \in TaskSlots :
                  /\ tasks[k] = chapter_urls[i]
                  /\ Succeeded(k)
                  /\ result[k] = <<chapter_urls[i], pages_per_chapter[i]>>
        /\ \A k \in TaskSlots :
              Exhausted(k) =>
                  \A i \in 1..Len(chapter_urls) : chapter_urls[i] # tasks[k]
        /\ Len(chapter_urls) =
              Len(MatchingAnchors) - Cardinality({k \in TaskSlots : Exhausted(k)})

\* one probe exhausted its attempts, another found its chapter's count
C12_Witness ==
    /\ dpc = "discovered"
    /\ \E k \in TaskSlots : Exhausted(k)
    /\ chapter_urls # <<>>

\* the batch resolver has been started, and no exception has ended the run
Resolving == dpc \in {"resolving", "resolved", "download"}

\* C13: run with a publication type that is neither manga-like nor "Manhwa"
\* (None included), a resolution returns None at once: it makes no attempt,
\* takes no delay, sends no request and raises nothing.
C13_UnsupportedTypeReturnsAtOnce ==
    (Resolving /\ manga_type \notin MANGA_LIKE \cup {"Manhwa"}) =>
        \A k \in TaskSlots :
            /\ tstate[k] \in {"new", "done"}
            /\ tstate[k] = "done" => result[k] = <<>>
            /\ attempt[k] = 0 /\ sleeps[k] = 0 /\ gets[k] = 0

\* C14, as stated: a probe or a resolution makes at most MAX_RETRIES attempts,
\* the attempt that finds the target is its last and no delay follows it, and
\* (None, None) or None is returned only after MAX_RETRIES failed attempts.
C14_NothingOnlyAfterAllAttempts ==
    \A k \in TaskSlots :
        /\ attempt[k] <= MAX_RETRIES
        /\ Succeeded(k) => attempt[k] >= 1 /\ sleeps[k] < attempt[k]
        /\ GaveUp(k) => attempt[k] = MAX_RETRIES

\* C14, amended: as above, except that a resolution run without a publication
\* type returns None with no attempt made.
C14_NothingAfterAllAttemptsOrNoType ==
    \A k \in TaskSlots :
        /\ attempt[k] <= MAX_RETRIES
        /\ Succeeded(k) => attempt[k] >= 1 /\ sleeps[k] < attempt[k]
        /\ GaveUp(k) =>
              \/ attempt[k] = MAX_RETRIES
              \/ Resolving /\ manga_type = "None" /\ attempt[k] = 0

\* of two tasks, one gave up after MAX_RETRIES attempts and one found its
\* target on its second
C14_Witness ==
    \E j, k \in TaskSlots :
        /\ Exhausted(j)
        /\ Succeeded(k) /\ attempt[k] = 2

\* C15: every probe and every resolution ends, and so do discovery and batch
\* resolution, whatever the upstream answers; in particular when every
\* request fails or lacks the target.
C15_CrawlTerminates == <>(dpc \in {"download", "aborted"})

\* batch resolution has returned after every one of its resolutions failed
\* all its attempts
C15_Witness ==
    /\ dpc = "resolved"
    /\ Len(tasks) >= 2
    /\ \A k \in TaskSlots : Exhausted(k) /\ gets[k] >= MAX_RETRIES

\* C16: a delay is taken after every failed attempt but the last: a task in
\* a delay has slept once per attempt made and has an attempt left, a task
\* that has ended has slept once less than it made attempts, so MAX_RETRIES - 1
\* times when all attempts failed.
C16_DelayBetweenAttempts ==
    \A k \in TaskSlots :
        /\ tstate[k] = "sleep" =>
              sleeps[k] = attempt[k] /\ attempt[k] < MAX_RETRIES
        /\ (tstate[k] \in {"done", "raised"} /\ attempt[k] > 0) =>
              sleeps[k] = attempt[k] - 1
        /\ attempt[k] = 0 => sleeps[k] = 0
        /\ tstate[k] # "run"

\* a task has failed MAX_RETRIES attempts and slept MAX_RETRIES - 1 times
C16_Witness ==
    \E k \in TaskSlots : Exhausted(k) /\ sleeps[k] = MAX_RETRIES - 1

\* the positions of the gathered results that lie in the window
WindowPositions == (start_index + 1)..Min(end_index, Len(tasks))
\* the positions in the window whose resolution found a link, in order
ResolvedInWindow ==
    SelectSeq([p \in 1..Len(tasks) |-> p],
              LAMBDA p : p \in WindowPositions /\ Succeeded(p))
\* the link found at position p without its last two parts, "1" and the
\* extension
BaseOf(p) == SubSeq(result[p], 1, Len(result[p]) - 2)
\* the position of the chapter that a returned link starts with
PositionOf(link) == CHOOSE p \in TaskSlots : tasks[p] = link[1]

\* C17: when a resolution has exhausted its attempts, nothing but an
\* exception raised in a task ends the run, batch resolution returns the base
\* urls of the chapters of the window that were resolved, in order, and the
\* download phase is entered with them.
C17_ExhaustedChapterSkipped ==
    /\ dpc = "aborted" => \E k \in TaskSlots : tstate[k] = "raised"
    /\ (dpc \in {"resolved", "download"} /\ \E k \in TaskSlots : Exhausted(k)) =>
          download_links =
              [i \in 1..Len(ResolvedInWindow) |-> BaseOf(ResolvedInWindow[i])]

\* C18: a failure inside an attempt of one probe or one resolution stays in
\* that task's retry loop: no task ends with an exception and the run is not
\* ended by one.
C18_FailureConfined ==
    /\ \A k \in TaskSlots : tstate[k] # "raised"
    /\ dpc # "aborted"

C20_ExactBase ==
    dpc \in {"resolved", "download"} =>
        \A i \in 1..Len(ResolvedInWindow) :
            download_links[i] = BaseOf(ResolvedInWindow[i])

\* =========================================================== page fetcher
\* A script's text is a sequence of tokens; every token but the two
\* identifiers stands for one character.
DC == "document.cookie"
LH == "location.href"
EQ == "="
QT == "\""
SC == ";"
SP == " "

\* the characters a cookie assignment's string may hold
CookieChars == {"n", "v", EQ, SC, SP}

SeqsUpTo(S, n) == UNION {[1..k -> S] : k \in 0..n}

\* the scripts served: a cookie statement (none, a bare mention of
\* document.cookie, or an assignment of a string, closed or cut short), a
\* separator, and a redirect statement (none, an empty target, a target)
CookieStmts ==
    {<<>>, <<DC>>} \cup
    {<<DC, EQ, QT>> \o c \o q : c \in SeqsUpTo(CookieChars, MaxCookie),
                                 q \in {<<QT>>, <<>>}}
Separators == {<<SC, SP>>, <<SP>>}
LinkStmts == {<<>>, <<LH, EQ, QT, QT>>, <<LH, EQ, QT, "u", QT>>}
Scripts == {c \o p \o l : c \in CookieStmts, p \in Separators, l \in LinkStmts}

\* the documents a GET of the entry url can parse to: no body, a body with no
\* script element, a body whose first script has the given text
Docs == {[kind |-> "nobody"], [kind |-> "noscript"]} \cup
        {[kind |-> "script", text |-> t] : t \in Scripts}

\* the number of tokens from position i on that are not in stop
RECURSIVE RunLen(_, _, _)
RunLen(t, i, stop) ==
    IF i > Len(t) \/ t[i] \in stop THEN 0 ELSE 1 + RunLen(t, i + 1, stop)

NoMatch == [matched |-> FALSE]
Match(g) == [matched |-> TRUE, group |-> g]

\* re.search(r'document\.cookie="([^;]+)', text): the leftmost position
\* where the literal is followed by at least one character other than ";",
\* the group taking all of them
CookieAt(t, i) ==
    /\ i + 2 <= Len(t)
    /\ t[i] = DC /\ t[i + 1] = EQ /\ t[i + 2] = QT
    /\ RunLen(t, i + 3, {SC}) >= 1
CookieSearch(t) ==
    IF \E i \in 1..Len(t) : CookieAt(t, i)
    THEN LET i == CHOOSE k \in 1..Len(t) :
                      CookieAt(t, k) /\ \A m \in 1..(k - 1) : ~CookieAt(t, m)
         IN Match(SubSeq(t, i + 3, i + 2 + RunLen(t, i + 3, {SC})))
    ELSE NoMatch

\* re.search(r'location\.href="([^"]+)"', text): the literal, at least one
\* character other than a quote, and the closing quote
LinkAt(t, i) ==
    /\ i + 2 <= Len(t)
    /\ t[i] = LH /\ t[i + 1] = EQ /\ t[i + 2] = QT
    /\ RunLen(t, i + 3, {QT}) >= 1
    /\ i + 3 + RunLen(t, i + 3, {QT}) <= Len(t)
LinkSearch(t) ==
    IF \E i \in 1..Len(t) : LinkAt(t, i)
    THEN LET i == CHOOSE k \in 1..Len(t) :
                      LinkAt(t, k) /\ \A m \in 1..(k - 1) : ~LinkAt(t, m)
         IN Match(SubSeq(t, i + 3, i + 2 + RunLen(t, i + 3, {QT})))
    ELSE NoMatch

\* str.strip(): leading and trailing whitespace removed
RECURSIVE Strip(_)
Strip(s) ==
    IF s = <<>> THEN s
    ELSE IF Head(s) = SP THEN Strip(Tail(s))
    ELSE IF s[Len(s)] = SP THEN Strip(SubSeq(s, 1, Len(s) - 1))
    ELSE s

\* str.split("="): the pieces between the "=" characters, empty ones kept
RECURSIVE Split(_)
Split(s) ==
    LET k == RunLen(s, 1, {EQ})
    IN IF k = Len(s) THEN <<s>>
       ELSE <<SubSeq(s, 1, k)>> \o Split(SubSeq(s, k + 2, Len(s)))

\* `"document.cookie" in script.text`
HasMarker(t) == \E i \in 1..Len(t) : t[i] = DC

\* src/src tests body and body.script before it reads script.text; the
\* helpers copy reads res.body.script.text at once
Guarded(pkg) == pkg = "src"

\* check_real_page's two `else: return initial_response` branches
ReturnsInitial(c, l) == ~c.matched \/ ~l.matched

\* variant: a failed request is made again
RetryOnError(answer) == "start"
\* fetch_page's except clause: the error is logged and sys.exit(1) ends the
\* process
OnClientError(answer) == "exit"

\* what the entry GET can come to: a body (whatever the status, which
\* fetch_page does not look at), or aiohttp.ClientError / TimeoutError
EntryAnswers == {"ok", "error"}
\* the redirect GET has raise_for_status() as well
RedirectAnswers == {"ok", "status", "error"}

\* fetch_page up to the call of check_real_page: the GET of the entry url
\* and the parse of its body
FetchGet ==
    /\ outcome = "start"
    /\ \E a \in EntryAnswers :
          /\ requests' = Append(requests,
                 [kind |-> "entry", url |-> <<"e">>, cookies |-> <<>>,
                  answer |-> a])
          /\ outcome' = IF a = "ok" THEN "fetched" ELSE OnClientError(a)
    /\ UNCHANGED <<package, doc, runVars, rangeVars, volumeVars,
                   attemptVars, batchVars>>

\* check_real_page and fetch_page's return: the outcome is "first" when the
\* parse of the entry GET is returned, "second" when that of the redirect GET
\* is, "raised" when an exception fetch_page does not catch leaves it
CheckRealPage ==
    /\ outcome = "fetched"
    /\ IF doc.kind # "script"
       THEN /\ outcome' = IF Guarded(package) THEN "first" ELSE "raised"
            /\ UNCHANGED requests
       ELSE IF ~HasMarker(doc.text)
       THEN /\ outcome' = "first"
            /\ UNCHANGED requests
       ELSE LET c == CookieSearch(doc.text)
                l == LinkSearch(doc.text)
            IN IF ReturnsInitial(c, l)
               THEN /\ outcome' = "first"
                    /\ UNCHANGED requests
               ELSE LET cookie == Split(Strip(c.group))
                    IN IF Len(cookie) < 2
                       THEN /\ outcome' = "raised"
                            /\ UNCHANGED requests
                       ELSE \E a \in RedirectAnswers :
                              /\ requests' = Append(requests,
                                     [kind |-> "redirect", url |-> l.group,
                                      cookies |-> <<cookie[1], cookie[2]>>,
                                      answer |-> a])
                              /\ outcome' = IF a = "ok" THEN "second"
                                            ELSE OnClientError(a)
    /\ UNCHANGED <<package, doc, runVars, rangeVars, volumeVars,
                   attemptVars, batchVars>>

\* neither the crawl nor the transfer runs
Parked ==
    /\ site = "all" /\ disk0 = {}
    /\ chapter_urls = <<>> /\ pages_per_chapter = <<>>
    /\ InitCommon /\ CrawlOver

PageInit ==
    /\ package \in {"src", "helpers"}
    /\ doc \in Docs
    /\ requests = <<>>
    /\ outcome = "start"
    /\ Parked /\ RangeIdle /\ VolumeIdle /\ AttemptIdle /\ BatchIdle

PageNext == FetchGet \/ CheckRealPage

PageSpec == PageInit /\ [][PageNext]_vars

\* ----------------------------------------------------- page fetcher claims
\* fetch_page has ended, and its entry GET gave a body
Fetched ==
    /\ outcome \in {"first", "second", "exit", "raised"}
    /\ requests[1].answer = "ok"

\* the string a script starting with document.cookie=" assigns: what stands
\* between the opening quote and the next one
AssignedString(t) == SubSeq(t, 4, 3 + RunLen(t, 4, {QT}))
\* the cookie's name in that string: what precedes the first "="
NameIn(t) == SubSeq(AssignedString(t), 1, RunLen(AssignedString(t), 1, {EQ}))
\* the cookie's value: what follows the first "=", up to the end of the
\* string or to the ";" that starts the cookie's attributes
ValueIn(t) ==
    LET str == AssignedString(t)
        rest == SubSeq(str, Len(NameIn(t)) + 2, Len(str))
    IN SubSeq(rest, 1, RunLen(rest, 1, {SC}))
Plain(s) == s # <<>> /\ \A i \in 1..Len(s) : s[i] \in {"n", "v"}
RedirectStmt == <<SC, SP, LH, EQ, QT, "u", QT>>
\* the script is a document.cookie="name=value..."; statement and a
\* location.href="target" statement
BothMarkers(t) ==
    /\ Len(t) >= 11
    /\ SubSeq(t, 1, 3) = <<DC, EQ, QT>>
    /\ 4 + RunLen(t, 4, {QT}) = Len(t) - 7
    /\ Len(NameIn(t)) < Len(AssignedString(t))
    /\ Plain(NameIn(t)) /\ Plain(ValueIn(t))
    /\ SubSeq(t, Len(t) - 6, Len(t)) = RedirectStmt

\* C21: when the fetched document's script holds both a
\* document.cookie="name=value..." statement and a location.href="target"
\* statement, the fetcher makes exactly one further GET, to target, with the
\* cookie name and value as they stand in the script, and returns the parse
\* of that second response.
C21_CookieAsInScript ==
    (Fetched /\ doc.kind = "script" /\ BothMarkers(doc.text)) =>
        /\ Len(requests) = 2
        /\ requests[2].kind = "redirect"
        /\ requests[2].url = <<"u">>
        /\ requests[2].cookies = <<NameIn(doc.text), ValueIn(doc.text)>>
        /\ requests[2].answer = "ok" => outcome = "second"

\* the marker is absent, or one of the two patterns does not match
Unmatched ==
    \/ doc.kind # "script"
    \/ ~HasMarker(doc.text)
    \/ ~CookieSearch(doc.text).matched
    \/ ~LinkSearch(doc.text).matched

\* C22: when the redirect-challenge marker is absent, or the cookie pattern
\* or the link pattern does not match, check_real_page returns the original
\* document, makes no further request and raises no error.
C22_UnmatchedReturnsOriginal ==
    (Fetched /\ Unmatched) => outcome = "first" /\ Len(requests) = 1

\* C23: fetch_page never retries: the entry url is requested at most once,
\* and an error or timeout of that GET or of the redirect GET ends the
\* process instead of returning a document.
C23_NoRetry ==
    /\ Cardinality({i \in 1..Len(requests) : requests[i].kind = "entry"}) <= 1
    /\ Len(requests) <= 2
    /\ (\E i \in 1..Len(requests) : requests[i].answer # "ok") =>
           outcome = "exit"
\* the redirect GET was made and failed, and the process ended
C23_Witness ==
    /\ outcome = "exit"
    /\ Len(requests) = 2
    /\ requests[2].answer = "error"

\* ========================================================= chapter range
\* --start and --end: None when the option is left out, else an integer
None == [given |-> FALSE]
Given(v) == [given |-> TRUE, val |-> v]
Bounds == {None} \cup {Given(v) : v \in (0 - 1)..(MaxTotal + 1)}

\* Python's truth value of an int-or-None: None and 0 are false
Truthy(x) == x.given /\ x.val # 0

\* validate_chapter_range: log_and_exit on a start outside 1..num_chapters,
\* on start > end, and (a second time) on start > num_chapters; else the
\* pair (start_index, end_index)
ValidateChapterRange(s, e, n) ==
    IF Truthy(s) /\ (s.val < 1 \/ s.val > n) THEN [state |-> "exit"]
    ELSE IF Truthy(s) /\ Truthy(e) /\ s.val > e.val THEN [state |-> "exit"]
    ELSE IF Truthy(s) /\ Truthy(e) /\ s.val > n THEN [state |-> "exit"]
    ELSE [state |-> "window",
          start_index |-> IF Truthy(s) THEN s.val - 1 ELSE 0,
          end_index |-> IF Truthy(e) THEN e.val ELSE n]

\* a slice index as Python reads it for a list of length n
SliceIndex(i, n) ==
    IF i < 0 THEN (IF i + n < 0 THEN 0 ELSE i + n) ELSE Min(i, n)
\* seq[a:b]
Slice(seq, a, b) ==
    SubSeq(seq, SliceIndex(a, Len(seq)) + 1, SliceIndex(b, Len(seq)))

Validate ==
    /\ window.state = "pending"
    /\ window' = ValidateChapterRange(start_chapter, end_chapter,
                                      num_chapters)
    /\ UNCHANGED <<start_chapter, end_chapter, num_chapters, runVars,
                   pageVars, volumeVars, attemptVars, batchVars>>

RangeInit ==
    /\ start_chapter \in Bounds
    /\ end_chapter \in Bounds
    /\ num_chapters \in 0..MaxTotal
    /\ window = [state |-> "pending"]
    /\ Parked /\ PageIdle /\ VolumeIdle /\ AttemptIdle /\ BatchIdle

RangeNext == Validate

RangeSpec == RangeInit /\ [][RangeNext]_vars

\* --------------------------------------------------- chapter range claims
Validated == window.state \in {"exit", "window"}
\* the chapters of the publication, by number
Chapters == [c \in 1..num_chapters |-> c]

\* C24: validate_chapter_range rejects every request with start = 0 or
\* start > total_chapters and every request with start > end; it returns a
\* window only when start is in [1, total_chapters] and start <= end.
C24_BadStartRejected ==
    Validated =>
        /\ (start_chapter.given /\ (start_chapter.val = 0
                \/ start_chapter.val > num_chapters)) =>
               window.state = "exit"
        /\ (start_chapter.given /\ end_chapter.given
                /\ start_chapter.val > end_chapter.val) =>
               window.state = "exit"
        /\ (window.state = "window" /\ start_chapter.given) =>
               start_chapter.val \in 1..num_chapters
        /\ (window.state = "window" /\ start_chapter.given
                /\ end_chapter.given) =>
               start_chapter.val <= end_chapter.val

\* C25: with both bounds omitted the window is (0, total_chapters); with one
\* bound given the other takes its full-range value; and for accepted bounds
\* (start, end) the window is (start - 1, end) and selects exactly the
\* chapters start..end.
C25_WindowSelectsRange ==
    window.state = "window" =>
        /\ ~start_chapter.given => window.start_index = 0
        /\ ~end_chapter.given => window.end_index = num_chapters
        /\ (start_chapter.given /\ end_chapter.given) =>
               /\ window.start_index = start_chapter.val - 1
               /\ window.end_index = end_chapter.val
               /\ Slice(Chapters, window.start_index, window.end_index) =
                     [i \in 1..(end_chapter.val - start_chapter.val + 1) |->
                         start_chapter.val + i - 1]

\* ============================================================== volumes
\* Titles and names are strings; the model keeps of each its rank in string
\* order. A volume-element with no volume-name paragraph has name 0 here and
\* gets the default name, which sorts after the name a document uses.
TitleKeys == {1, 2}
NameKeys == {1}
DefaultName == 2

\* a div.chapter: 0 when it has no a.chap with a title, else the title of
\* the anchor (anchors of the site carry an href)
ChapterDivs == {0} \cup TitleKeys

\* a div.volume-element: its name, and its div.chapter list, or no
\* div.volume-chapters at all
Containers ==
    [name : {0} \cup NameKeys,
     chapters : {[present |-> FALSE]} \cup
                {[present |-> TRUE, divs |-> d] :
                    d \in SeqsUpTo(ChapterDivs, MaxDivs)}]

\* the documents: soup.find_all("div", class_="volume-element")
Soups == SeqsUpTo(Containers, MaxVolumes)

\* sorted(...) on <<key, item>> pairs: ascending by key, and stable
RECURSIVE Insert(_, _)
Insert(x, s) ==
    IF s = <<>> THEN <<x>>
    ELSE IF s[Len(s)][1] <= x[1] THEN Append(s, x)
    ELSE Append(Insert(x, SubSeq(s, 1, Len(s) - 1)), s[Len(s)])
RECURSIVE Sorted(_)
Sorted(s) ==
    IF s = <<>> THEN <<>>
    ELSE Insert(s[Len(s)], Sorted(SubSeq(s, 1, Len(s) - 1)))

\* `sorted(chapters, key=lambda c: c['title'])`
SortChapters(chapters) ==
    LET ps == Sorted([i \in 1..Len(chapters) |->
                         <<chapters[i].title, chapters[i]>>])
    IN [i \in 1..Len(ps) |-> ps[i][2]]

\* `name_tag.get_text(strip=True) if name_tag else "Volume"`
VolumeName(vol) == IF vol.name = 0 THEN DefaultName ELSE vol.name

\* the chapters list of one volume-element, in document order; the url
\* stands for the anchor it was read from (volume-element v, div k)
ChaptersOf(vol, v) ==
    IF ~vol.chapters.present THEN <<>>
    ELSE LET d == vol.chapters.divs
             kept == SelectSeq([k \in 1..Len(d) |-> [at |-> k, t |-> d[k]]],
                               LAMBDA e : e.t # 0)
         IN [i \in 1..Len(kept) |->
                [title |-> kept[i].t, url |-> <<v, kept[i].at>>]]

\* `if chapters:`
KeepVolume(chapters) == chapters # <<>>

\* variant: the volumes are returned in document order
VolumesAsFound(vols) == vols
\* `sorted(volumes, key=lambda v: v['name'])`
SortVolumes(vols) ==
    LET ps == Sorted([i \in 1..Len(vols) |-> <<vols[i].name, vols[i]>>])
    IN [i \in 1..Len(ps) |-> ps[i][2]]

\* variant: the signal is given when no volume is kept
NoVolumeKept(volume_elements, vols) == vols = <<>>
\* `if volume_elements: ... else: return None`
NoVolumes(volume_elements, vols) == volume_elements = <<>>

\* extract_volume_info
ExtractVolumeInfo(volume_elements) ==
    LET all == [v \in 1..Len(volume_elements) |->
                   [name |-> VolumeName(volume_elements[v]),
                    chapters |->
                        SortChapters(ChaptersOf(volume_elements[v], v))]]
        vols == SelectSeq(all, LAMBDA vol : KeepVolume(vol.chapters))
    IN IF NoVolumes(volume_elements, vols) THEN [state |-> "None"]
       ELSE [state |-> "list", list |-> SortVolumes(vols)]

ExtractVolumes ==
    /\ volumes.state = "pending"
    /\ volumes' = ExtractVolumeInfo(soup)
    /\ UNCHANGED <<soup, runVars, pageVars, rangeVars, attemptVars,
                   batchVars>>

VolumeInit ==
    /\ soup \in Soups
    /\ volumes = [state |-> "pending"]
    /\ Parked /\ PageIdle /\ RangeIdle /\ AttemptIdle /\ BatchIdle

VolumeNext == ExtractVolumes

VolumeSpec == VolumeInit /\ [][VolumeNext]_vars

Ascending(keys) == \A i \in 1..(Len(keys) - 1) : keys[i] <= keys[i + 1]

\* C27: every returned volume has at least one chapter, its chapters are in
\* ascending order of title, and the volumes are in ascending order of name,
\* whatever the order of volume-elements and chapter links in the document.
C27_SortedNonEmpty ==
    volumes.state = "list" =>
        /\ \A v \in 1..Len(volumes.list) :
              LET ch == volumes.list[v].chapters
              IN /\ ch # <<>>
                 /\ Ascending([i \in 1..Len(ch) |-> ch[i].title])
        /\ Ascending([v \in 1..Len(volumes.list) |-> volumes.list[v].name])
\* the document lists a later name first and, under it, a later title first;
\* both volumes are returned
C27_Witness ==
    /\ Len(soup) >= 2
    /\ VolumeName(soup[1]) > VolumeName(soup[2])
    /\ soup[1].chapters.present
    /\ soup[1].chapters.divs = <<2, 1>>
    /\ volumes.state = "list"
    /\ Len(volumes.list) = 2

\* ------------------------------------------------- a batch above the pool
\* A run of one item more than the pool has threads: every chapter was
\* resolved, has one page, and the upstream serves every page.
PoolItems == 1..(MAX_WORKERS + 1)

PoolInit ==
    /\ site = "all" /\ disk0 = {}
    /\ chapter_urls = [c \in PoolItems |-> c]
    /\ pages_per_chapter = [c \in PoolItems |-> PageTexts[1]]
    /\ start_index = 0 /\ end_index = Len(chapter_urls)
    /\ resolved = PoolItems
    /\ download_links = ExtractDownloadLinks(chapter_urls, start_index,
                                             end_index, resolved)
    /\ cpc = "start"
    /\ InitOver(PoolItems)
    /\ CrawlOver /\ ToolsIdle

PoolNext ==
    \/ StartRun \/ Submit \/ PollFuture \/ Flip \/ Shutdown
    \/ \E j \in PoolItems : Worker(j)

PoolSpec == PoolInit /\ [][PoolNext]_vars

\* ------------------------------------------------------------ pool claims
Submitted == 1..Len(download_links)
Occurrences(seq, x) == Cardinality({i \in 1..Len(seq) : seq[i] = x})

\* the entries and tasks that exist are those of run_in_parallel's items,
\* no item's function is run twice, and a run that has returned has run
\* every item's function once
C28_Safe ==
    /\ overall.added => overall.total = Len(download_links)
    /\ \A j \in DOMAIN taskAdded :
          /\ (taskAdded[j] \/ fstate[j] # "none") => j \in Submitted
          /\ taskAdded[j] <=> fstate[j] # "none"
          /\ Occurrences(startOrder, j) <= 1
    /\ cpc = "returned" =>
          /\ overall.added
          /\ \A j \in Submitted :
                taskAdded[j] /\ fstate[j] = "FINISHED"
                    /\ Occurrences(startOrder, j) = 1

\* C28: run_in_parallel creates one overall entry (total = number of items)
\* and, for each item, one hidden entry of total 100 and one task; once it
\* has returned every item's function has been executed exactly once
\* (checked under FairSpec).
C28_EntryAndTaskPerItem ==
    /\ []C28_Safe
    /\ (cpc = "start") ~>
           (overall.added /\ \A j \in Submitted : taskAdded[j])

\* a task starts only while fewer than MAX_WORKERS are executing, and an
\* executing task stops executing only when its function has returned or
\* raised
C29_StartAndEnd ==
    \A j \in DOMAIN fstate :
        /\ (fstate[j] = "PENDING" /\ fstate'[j] = "RUNNING") =>
               Cardinality(Running) < MAX_WORKERS
        /\ (fstate[j] = "RUNNING" /\ fstate'[j] # "RUNNING") =>
               wpc[j] \in {"returned", "raised"}

\* C29: at every moment at most MAX_WORKERS chapter downloads are executing;
\* a worker runs a chapter's page loop to its end before it takes the next
\* queued chapter, and a queued chapter starts only when a worker is free.
C29_AtMostMaxWorkers ==
    /\ [](Cardinality(Running) <= MAX_WORKERS)
    /\ [][C29_StartAndEnd]_vars
\* every thread of the pool is executing a chapter and one more is queued
C29_Witness ==
    /\ Cardinality(Running) = MAX_WORKERS
    /\ \E j \in DOMAIN fstate : fstate[j] = "PENDING"

\* the paths under a chapter directory
PageFiles(paths) == paths \ {SESSION_LOG}

\* C30 as stated: two distinct items of one run never resolve to the same
\* download directory, and no two workers ever write the same file path.
C30_NoCommonPath ==
    \A i, j \in DOMAIN written :
        i # j =>
            /\ ChapterDir(i - 1) # ChapterDir(j - 1)
            /\ written[i] \cap written[j] = {}

\* C30: two distinct items of one run never resolve to the same download
\* directory, so no two workers ever write the same page file; the one path
\* that more than one worker writes is the session log they append to.
C30_NoCommonPageFile ==
    \A i, j \in DOMAIN written :
        i # j =>
            /\ ChapterDir(i - 1) # ChapterDir(j - 1)
            /\ \A f \in written[i], g \in written[j] :
                  f # SESSION_LOG => f.dir # g.dir
            /\ written[i] \cap written[j] \subseteq {SESSION_LOG}
\* two workers have each written a page file, and both have appended to the
\* session log
C30_Witness ==
    \E i, j \in DOMAIN written :
        /\ i # j
        /\ fstate[i] = "RUNNING" /\ fstate[j] = "RUNNING"
        /\ PageFiles(written[i]) # {} /\ PageFiles(written[j]) # {}
        /\ SESSION_LOG \in written[i] \cap written[j]

\* ------------------------------------------------------ directory claims
\* C31: the directory 'Chapter <n>' a chapter's pages are written to carries
\* the chapter's 1-based ordinal in the discovered chapter sequence, whatever
\* window is requested and whichever other chapters failed resolution.
C31_DirectoryIsOrdinal ==
    \A j \in DOMAIN written :
        \A f \in PageFiles(written[j]) : f.dir = download_links[j]

\* ------------------------------------------------------- progress claims
\* the value the entry holds while page p is next: that of page p - 1
C32_Value ==
    \A j \in DOMAIN completed :
        /\ completed[j] <= 100
        /\ wpc[j] = "page" =>
               completed[j] = ((page[j] - 1) * 100) \div num_pages[j]
        /\ fstate[j] = "FINISHED" => completed[j] = 100

\* C32: after each page p of a chapter the chapter's progress is
\* p / page_count * 100; the value never decreases, never exceeds 100, and is
\* exactly 100 when the worker finishes.
C32_ProgressReaches100 ==
    /\ []C32_Value
    /\ [][\A j \in DOMAIN completed : completed'[j] >= completed[j]]_vars

\* the step is one of the worker that executes item j's download
ByWorkerOf(j) == fstate[j] = "RUNNING" /\ UNCHANGED coordVars
\* the step is manage_running_tasks' update of the entry it has popped
ByCoordinatorFor(j) == cpc = "flip" /\ flipTask = j /\ UNCHANGED wpc

\* C33 as stated: every mutation of a chapter's progress entry (completed
\* value or visibility) is performed by the worker executing that chapter's
\* download and by no other thread.
C33_OnlyWorkerMutates ==
    [][\A j \in DOMAIN completed :
          (completed'[j] # completed[j] \/ visible'[j] # visible[j]) =>
              ByWorkerOf(j)]_vars

\* C33: a chapter's completed value is changed, and its entry hidden, only
\* by the worker executing that chapter's download; the entry is made
\* visible only by the coordinator, for the future it has seen running.
C33_WorkerCompletesCoordinatorShows ==
    [][\A j \in DOMAIN completed :
          /\ completed'[j] # completed[j] => ByWorkerOf(j)
          /\ (visible[j] /\ ~visible'[j]) => ByWorkerOf(j)
          /\ (~visible[j] /\ visible'[j]) => ByCoordinatorFor(j)]_vars
\* an entry the coordinator made visible was completed and hidden by its
\* worker
C33_Witness ==
    \E j \in DOMAIN completed :
        /\ \E k \in 1..Len(visOrder) : visOrder[k] = j
        /\ wpc[j] = "returned"
        /\ completed[j] = 100 /\ ~visible[j]

\* ================================================= one resolution attempt
\* The body of fetch_download_link's loop for one fetched document. The
\* img.img-fluid elements are kept by their src (the site's images carry
\* one): the layout's banner, or a page image.
Srcs == {"banner", "page", "other"}
ImgLists == SeqsUpTo(Srcs, MaxImgs)

\* how the attempt's requests went: the document came with the first GET,
\* or with the redirect GET, or a request failed with an error the except
\* clause names
Responses == {"ok", "ok_redirect", "client_error"}

\* variant: the first image is taken
FirstSrc(items) == items[1]
\* `img_items[-1]["src"]`
LastSrc(items) == items[Len(items)]

\* `if img_items: return img_items[-1]["src"]`, else on to the delay
AttemptResult(response, items) ==
    IF response = "client_error" THEN [state |-> "retry"]
    ELSE IF items # <<>> THEN [state |-> "return", link |-> LastSrc(items)]
    ELSE [state |-> "retry"]

ResolveAttempt ==
    /\ found_link.state = "pending"
    /\ found_link' = AttemptResult(found_link.response, img_items)
                        @@ [response |-> found_link.response]
    /\ UNCHANGED <<img_items, runVars, pageVars, rangeVars, volumeVars,
                   batchVars>>

AttemptInit ==
    /\ img_items \in ImgLists
    /\ found_link \in [state : {"pending"}, response : Responses]
    /\ Parked /\ PageIdle /\ RangeIdle /\ VolumeIdle /\ BatchIdle

AttemptNext == ResolveAttempt

AttemptSpec == AttemptInit /\ [][AttemptNext]_vars

UrlLines == {"u1", "u2", "u3"}
UrlFiles == SeqsUpTo(UrlLines, MaxUrls)

\* the parameters of process_manga_download(url, generate_pdf=False)
Parameters == {"url", "generate_pdf"}
\* the keyword process_urls passes its flag under
PassedKeyword == "generate_pdf_flag"

\* a call binds when every keyword it passes is a parameter; else Python
\* raises TypeError at the call, before the coroutine exists
CallBinds(keyword) == keyword \in Parameters

\* how the processing of one publication can end: it returns, or it leaves
\* through sys.exit or an exception it does not catch
Endings == {"finished", "aborted"}

\* urls = read_file(FILE)
ReadFile ==
    /\ bpc = "read"
    /\ batch_urls' = url_file
    /\ bpc' = "loop"
    /\ UNCHANGED <<url_file, processed, runVars, pageVars, rangeVars,
                   volumeVars, attemptVars>>

\* one turn of process_urls' loop: the call of process_manga_download for
\* the next url and, when the call binds, the publication's processing to
\* its end
ProcessUrl ==
    /\ bpc = "loop"
    /\ Len(processed) < Len(batch_urls)
    /\ LET url == batch_urls[Len(processed) + 1]
       IN IF CallBinds(PassedKeyword)
          THEN \E e \in Endings :
                 /\ processed' = Append(processed,
                                        [url |-> url, ending |-> e])
                 /\ bpc' = IF e = "finished" THEN "loop" ELSE "aborted"
          ELSE /\ bpc' = "aborted"
               /\ UNCHANGED processed
    /\ UNCHANGED <<url_file, batch_urls, runVars, pageVars, rangeVars,
                   volumeVars, attemptVars>>

\* write_file(FILE) after process_urls returned
ClearFile ==
    /\ bpc = "loop"
    /\ Len(processed) = Len(batch_urls)
    /\ url_file' = <<>>
    /\ bpc' = "cleared"
    /\ UNCHANGED <<batch_urls, processed, runVars, pageVars, rangeVars,
                   volumeVars, attemptVars>>

BatchInit ==
    /\ url_file \in UrlFiles
    /\ batch_urls = <<>>
    /\ bpc = "read"
    /\ processed = <<>>
    /\ Parked /\ PageIdle /\ RangeIdle /\ VolumeIdle /\ AttemptIdle

BatchNext == ReadFile \/ ProcessUrl \/ ClearFile

BatchSpec == BatchInit /\ [][BatchNext]_vars

\* C35: the batch runner processes the URLs of the file one at a time in
\* file order, each publication after the previous one finished; the file is
\* cleared only after every URL has been processed, and when processing
\* aborts the file is left as it was.
C35_BatchInFileOrder ==
    /\ Len(processed) <= Len(batch_urls)
    /\ \A i \in 1..Len(processed) :
          /\ processed[i].url = batch_urls[i]
          /\ i < Len(processed) => processed[i].ending = "finished"
    /\ bpc = "cleared" =>
          /\ Len(processed) = Len(batch_urls)
          /\ \A i \in 1..Len(processed) : processed[i].ending = "finished"
    /\ bpc = "aborted" =>
          /\ url_file = batch_urls
          /\ processed # <<>>
          /\ processed[Len(processed)].ending = "aborted"

\* C36: whenever validate_chapter_range returns, the window satisfies
\* 0 <= start_index <= end_index <= num_chapters, for all integer or omitted
\* start and end values.
C36_WindowWithinChapters ==
    window.state = "window" =>
        /\ 0 <= window.start_index
        /\ window.start_index <= window.end_index
        /\ window.end_index <= num_chapters

\* ------------------------------------------------------ page file claims
\* attempt_download_page(p) of item j has returned True
ReturnedTrue(j, p) ==
    /\ p \in 1..Len(attempted[j])
    /\ p < page[j] \/ wpc[j] \in Done
    /\ p \notin failLog[j]

\* C37: attempt_download_page returns True for a page only if the complete
\* response body was written to that page's file: a failure while streaming
\* the accepted response never leaves a partial file reported as a success.
C37_TrueOnlyIfWhole ==
    \A j \in DOMAIN attempted : \A p \in 1..MaxPages :
        ReturnedTrue(j, p) =>
            /\ \E f \in FilesOf(disk, ChapterDir(j - 1), p) : f.body # "old"
            /\ \A f \in FilesOf(disk, ChapterDir(j - 1), p) :
                  f.body # "old" => f.whole

\* ------------------------------------------------- submission order claims
\* the items whose task has been made visible by manage_running_tasks
Observed == {visOrder[n] : n \in DOMAIN visOrder}

\* the coordinator holds at most one future, entries exist for exactly the
\* items submitted so far, and the entries were made visible in item order
OneFutureInOrder ==
    /\ Len(futures) <= 1
    /\ \A j \in DOMAIN taskAdded : taskAdded[j] <=> j <= indx
    /\ \A n \in DOMAIN visOrder : visOrder[n] = n
    /\ \A j \in 1..indx : j < indx => j \in Observed

\* C38: in run_in_parallel the coordinator holds at most one not-yet-confirmed
\* future at any time: chapter i+1 is submitted only after chapter i has been
\* observed executing, so tasks are submitted, and their entries made visible,
\* strictly in item order.
C38_OneFutureAtATime ==
    /\ []OneFutureInOrder
    /\ [][indx' # indx =>
             /\ indx' = indx + 1
             /\ futures = <<>>
             /\ indx >= 1 => indx \in Observed]_vars

C38_Witness == indx = 2 /\ visOrder = <<1, 2>> /\ futures = <<>>

\* --------------------------------------------------------- shutdown claims
\* C39: run_in_parallel returns only after every submitted chapter download
\* has finished, so PDF generation for a publication begins only after all of
\* its chapter downloads are complete.
C39_ReturnsAfterAllFinished ==
    cpc \in {"returned", "pdf"} =>
        /\ indx = Len(download_links)
        /\ \A j \in Submitted :
              fstate[j] = "FINISHED" /\ wpc[j] \in {"returned", "raised"}

C39_Witness ==
    /\ cpc = "pdf"
    /\ Len(download_links) = 2
    /\ \A j \in Submitted : wpc[j] = "returned"

\* ------------------------------------------------------- request claims
\* C40: check_real_page follows at most one redirect hop: the document
\* returned by the redirect GET is not examined for a further challenge, so
\* each probe or resolution attempt issues at most two GETs and one exhausted
\* retry loop issues at most 2 * MAX_RETRIES GETs.
C40_AtMostTwoGetsPerAttempt ==
    /\ [](\A k \in TaskSlots :
            /\ gets[k] <= 2 * attempt[k]
            /\ gets[k] <= 2 * MAX_RETRIES)
    /\ [][\A k \in Slots : gets'[k] <= gets[k] + 2]_vars

\* a retry loop that met the challenge redirect on every attempt
C40_Witness ==
    \E k \in TaskSlots : Exhausted(k) /\ gets[k] = 2 * MAX_RETRIES

====
